---- MODULE Spec2Model ----
(***************************************************************************)
(* Model of model_inspector.py: the command-line entry point and           *)
(* inspect_tflite_model, which loads a TFLite model, prints a report of    *)
(* its tensors and runs one inference on a synthesized input.              *)
(*                                                                         *)
(* Standard output is the sequence `out` of printed lines.  A line is a    *)
(* record [tag, txt, nums]: tag names the print statement, txt and nums    *)
(* carry the values interpolated into it.  A print whose text starts with  *)
(* "\n" appends a Blank line first.                                        *)
(***************************************************************************)
EXTENDS Integers, Sequences, FiniteSets, TLC

VARIABLES pc, argc, interpreter, input_details, output_details, i,
          input_shape, input_dtype, test_input, output, calls,
          out, exitStatus, raised, error

vars == <<pc, argc, interpreter, input_details, output_details, i,
          input_shape, input_dtype, test_input, output, calls,
          out, exitStatus, raised, error>>

(* ------------------------------ bounds --------------------------------- *)

\* largest len(sys.argv) tried
MaxArgc == 2
\* most input / output descriptors a loaded model returns
MaxInputs == 2
MaxOutputs == 2

(* ------------------------- the models inspected ------------------------ *)

\* numeric types of tensors: the two the script tests for, and another one
DTypes == {"float32", "uint8", "int8"}

\* shapes of input tensors: one of rank 3, two of rank 4 or more
InputShapes == {<<1, 224, 224>>, <<1, 224, 224, 3>>, <<2, 3, 4, 5, 6>>}

\* the optional keys of a descriptor: both quantization keys, or neither
KeySets == {{"quantization", "quantization_parameters"}, {}}

InputDescriptors == [shape : InputShapes, dtype : DTypes, keys : KeySets]

OutputDescriptors == [dtype : {"float32"}]

\* shapes of the array get_tensor returns
OutputShapes ==
    {<<1, 25200, 85>>, <<1, 1000>>, <<1, 0, 85>>, <<1, 85, 4>>, <<85>>,
     <<1, 2, 3, 85>>, <<1, 0>>}

SeqsUpTo(S, n) == UNION {[1..k -> S] : k \in 0..n}

NoArray == [dtype |-> "", shape |-> <<>>]

(* ------------------------------ printing ------------------------------- *)

Line(tag, txt, nums) == [tag |-> tag, txt |-> txt, nums |-> nums]

L(tag) == Line(tag, "", <<>>)

Blank == L("Blank")

Sep == L("Sep")

Min(a, b) == IF a < b THEN a ELSE b

RECURSIVE Product(_)
Product(s) == IF s = <<>> THEN 1 ELSE Head(s) * Product(Tail(s))

(* ------------------------------ exceptions ----------------------------- *)

\* an exception no handler catches: traceback, exit status 1
Raise(exc) ==
    /\ pc' = "exited"
    /\ exitStatus' = 1
    /\ raised' = exc

(* ------------------------------ __main__ ------------------------------- *)

\* variant: the argument test is off by one
MissingArgumentOffByOne(n) == n < 1

MissingArgument(n) == n < 2

UsageLines ==
    << L("Usage"), Blank, L("Example"), L("ExampleCommand") >>

Main ==
    /\ pc = "main"
    /\ IF MissingArgument(argc)
       THEN /\ out' = out \o UsageLines
            /\ pc' = "exited"
            /\ exitStatus' = 1
       ELSE /\ pc' = "load"
            /\ UNCHANGED <<out, exitStatus>>
    /\ UNCHANGED <<error, argc, interpreter, input_details, output_details, i,
                   input_shape, input_dtype, test_input, output, calls, raised>>

(* ------------------------ inspect_tflite_model ------------------------- *)

\* variant: a failed load is reported in the report instead of propagating
LoadModelRecovers ==
    /\ pc = "load"
    /\ calls' = Append(calls, "Interpreter")
    /\ \E ok \in BOOLEAN :
         IF ok
         THEN /\ interpreter' = "loaded"
              /\ pc' = "allocate"
              /\ UNCHANGED <<out, error>>
         ELSE /\ error' = "ValueError"
              /\ out' = out \o << Line("InferenceFailed", "ValueError", <<>>) >>
              /\ pc' = "final"
              /\ UNCHANGED interpreter
    /\ UNCHANGED <<argc, input_details, output_details, i, input_shape,
                   input_dtype, test_input, output, exitStatus, raised>>

LoadModel ==
    /\ pc = "load"
    /\ calls' = Append(calls, "Interpreter")
    /\ \E ok \in BOOLEAN :
         IF ok
         THEN /\ interpreter' = "loaded"
              /\ pc' = "allocate"
              /\ UNCHANGED <<exitStatus, raised>>
         ELSE /\ Raise("ValueError")
              /\ UNCHANGED interpreter
    /\ UNCHANGED <<error, argc, input_details, output_details, i, input_shape,
                   input_dtype, test_input, output, out>>

AllocateTensors ==
    /\ pc = "allocate"
    /\ calls' = Append(calls, "allocate_tensors")
    /\ \E ok \in BOOLEAN :
         IF ok
         THEN /\ interpreter' = "allocated"
              /\ pc' = "details"
              /\ UNCHANGED <<exitStatus, raised>>
         ELSE /\ Raise("RuntimeError")
              /\ UNCHANGED interpreter
    /\ UNCHANGED <<error, argc, input_details, output_details, i, input_shape,
                   input_dtype, test_input, output, out>>

ReportHeader ==
    << Sep, L("Title"), Sep, Blank, L("InputTensorHeader") >>

GetDetails ==
    /\ pc = "details"
    /\ calls' = calls \o <<"get_input_details", "get_output_details">>
    /\ \E ins \in SeqsUpTo(InputDescriptors, MaxInputs),
          outs \in SeqsUpTo(OutputDescriptors, MaxOutputs) :
         /\ input_details' = ins
         /\ output_details' = outs
    /\ out' = out \o ReportHeader
    /\ i' = 1
    /\ pc' = "inputs"
    /\ UNCHANGED <<error, argc, interpreter, input_shape, input_dtype, test_input,
                   output, exitStatus, raised>>

\* lines 27-36: what one iteration of the input loop prints before it ends or
\* raises; idx is the position in input_details (the report shows idx - 1)
HasKey(inp, key) == key \in inp.keys

IsQuantized(inp) == inp.dtype = "uint8"

InputEntry(idx, inp) ==
    << Line("InputName", "", <<idx - 1>>),
       Line("InputShape", "", inp.shape),
       Line("InputType", inp.dtype, <<>>),
       Line("Quantization",
            IF HasKey(inp, "quantization") THEN "quantization" ELSE "None",
            <<>>) >>
    \o (IF IsQuantized(inp)
        THEN << L("QuantizedWarning") >>
             \o (IF HasKey(inp, "quantization_parameters")
                 THEN << Line("Scale", "scales", <<idx - 1>>),
                         Line("ZeroPoint", "zero_points", <<idx - 1>>) >>
                 ELSE <<>>)
        ELSE <<>>)

\* inp['quantization_parameters'] of line 35 raises KeyError
InputEntryRaises(inp) ==
    IsQuantized(inp) /\ ~HasKey(inp, "quantization_parameters")

PrintInput ==
    /\ pc = "inputs"
    /\ i <= Len(input_details)
    /\ out' = out \o InputEntry(i, input_details[i])
    /\ IF InputEntryRaises(input_details[i])
       THEN /\ Raise("KeyError")
            /\ UNCHANGED i
       ELSE /\ i' = i + 1
            /\ UNCHANGED <<pc, exitStatus, raised>>
    /\ UNCHANGED <<error, argc, interpreter, input_details, output_details,
                   input_shape, input_dtype, test_input, output, calls>>

\* line 38, once the input loop is exhausted
BeginOutputs ==
    /\ pc = "inputs"
    /\ i > Len(input_details)
    /\ out' = out \o << Blank, L("OutputTensorHeader") >>
    /\ i' = 1
    /\ pc' = "outputs"
    /\ UNCHANGED <<error, argc, interpreter, input_details, output_details,
                   input_shape, input_dtype, test_input, output, calls,
                   exitStatus, raised>>

OutputEntry(idx, o) ==
    << Line("OutputName", "", <<idx - 1>>),
       L("OutputDescShape"),
       Line("OutputType", o.dtype, <<>>) >>

PrintOutput ==
    /\ pc = "outputs"
    /\ i <= Len(output_details)
    /\ out' = out \o OutputEntry(i, output_details[i])
    /\ i' = i + 1
    /\ UNCHANGED <<pc, error, argc, interpreter, input_details, output_details,
                   input_shape, input_dtype, test_input, output, calls,
                   exitStatus, raised>>

\* lines 51-63
RecipeLines(dtype) ==
    IF dtype = "float32"
    THEN << L("Float32Model"), L("NormalizeUnit"), L("DivideBy255"),
            Blank, L("OrImageNet"), L("MeanStdR"), L("MeanStdG"),
            L("MeanStdB") >>
    ELSE IF dtype = "uint8"
    THEN << L("Uint8Model"), L("RawPixels"), L("NoNormalization") >>
    ELSE <<>>

\* variant: the last input descriptor is read instead of the first
LastInput == Len(input_details)

\* the descriptor lines 48-49 and 80 read (Python index 0)
FirstInput == 1

\* lines 44-63, once the output loop is exhausted
PrintFormat ==
    /\ pc = "outputs"
    /\ i > Len(output_details)
    /\ IF Len(input_details) = 0
       THEN /\ out' = out \o << Blank, Sep, L("ExpectedHeader"), Sep >>
            /\ Raise("IndexError")
            /\ UNCHANGED <<input_shape, input_dtype>>
       ELSE /\ input_shape' = input_details[FirstInput].shape
            /\ input_dtype' = input_details[FirstInput].dtype
            /\ out' = out \o << Blank, Sep, L("ExpectedHeader"), Sep >>
                          \o RecipeLines(input_dtype')
            /\ pc' = "shape"
            /\ UNCHANGED <<exitStatus, raised>>
    /\ UNCHANGED <<error, argc, interpreter, input_details, output_details, i,
                   test_input, output, calls>>

\* lines 66-69: one label per dimension, in this order
DimLabels == << "Batch", "Height", "Width", "Channels" >>

ShapeLines(shape) ==
    << Blank, Line("ExpectedShape", "", shape) >>
    \o [k \in 1..Min(Len(shape), Len(DimLabels)) |->
           Line(DimLabels[k], "", <<shape[k]>>)]

\* variant: the decomposition stops quietly at the end of a short shape
ShapeNeverRaises(shape) == FALSE

\* input_shape[k] with k past the end raises IndexError
ShapeRaises(shape) == Len(shape) < Len(DimLabels)

PrintShape ==
    /\ pc = "shape"
    /\ out' = out \o ShapeLines(input_shape)
    /\ IF ShapeRaises(input_shape)
       THEN Raise("IndexError")
       ELSE /\ pc' = "synth"
            /\ UNCHANGED <<exitStatus, raised>>
    /\ UNCHANGED <<error, argc, interpreter, input_details, output_details, i,
                   input_shape, input_dtype, test_input, output, calls>>

\* variant: the dummy input takes the declared type
SynthDeclaredDtype(declared) == declared

\* line 77: np.random.rand(*input_shape).astype(np.float32)
SynthDtype(declared) == "float32"

SynthInput ==
    /\ pc = "synth"
    /\ out' = out \o << Blank, Sep, L("TestingHeader"), Sep >>
    /\ test_input' = [dtype |-> SynthDtype(input_dtype), shape |-> input_shape]
    /\ pc' = "set_tensor"
    /\ UNCHANGED <<error, argc, interpreter, input_details, output_details, i,
                   input_shape, input_dtype, output, calls, exitStatus,
                   raised>>

\* variant: the handler lets the error go on to the caller
ExceptReraises(e) ==
    /\ error' = e
    /\ out' = out
    /\ Raise(e)

\* lines 95-96: the handler of the try block; e is the error's description
Except(e) ==
    /\ error' = e
    /\ out' = out \o << Line("InferenceFailed", e, <<>>) >>
    /\ pc' = "final"
    /\ UNCHANGED <<exitStatus, raised>>

\* the try block goes on to its next statement
Proceed(next) ==
    /\ pc' = next
    /\ UNCHANGED <<out, exitStatus, raised, error>>

\* set_tensor rejects a value whose type or shape is not the tensor's
SetTensorRejects(value, tensor) ==
    value.dtype # tensor.dtype \/ value.shape # tensor.shape

\* line 80
SetTensor ==
    /\ pc = "set_tensor"
    /\ calls' = Append(calls, "set_tensor")
    /\ \E ok \in BOOLEAN :
         IF SetTensorRejects(test_input, input_details[FirstInput])
         THEN Except("ValueError: Cannot set tensor")
         ELSE IF ok THEN Proceed("invoke")
                    ELSE Except("ValueError: set_tensor")
    /\ UNCHANGED <<argc, interpreter, input_details, output_details, i,
                   input_shape, input_dtype, test_input, output>>

\* line 81
Invoke ==
    /\ pc = "invoke"
    /\ calls' = Append(calls, "invoke")
    /\ \E ok \in BOOLEAN :
         IF ok THEN Proceed("get_tensor")
               ELSE Except("RuntimeError: invoke")
    /\ UNCHANGED <<argc, interpreter, input_details, output_details, i,
                   input_shape, input_dtype, test_input, output>>

\* line 82: output_details[0] raises IndexError before the call when the model
\* has no output
GetTensor ==
    /\ pc = "get_tensor"
    /\ IF Len(output_details) = 0
       THEN /\ Except("IndexError: list index out of range")
            /\ UNCHANGED <<calls, output>>
       ELSE /\ calls' = Append(calls, "get_tensor")
            /\ \E ok \in BOOLEAN, shape \in OutputShapes :
                 IF ok
                 THEN /\ output' = [dtype |-> output_details[1].dtype,
                                    shape |-> shape]
                      /\ Proceed("success")
                 ELSE /\ Except("ValueError: get_tensor")
                      /\ UNCHANGED output
    /\ UNCHANGED <<argc, interpreter, input_details, output_details, i,
                   input_shape, input_dtype, test_input>>

\* number of elements of an array of that shape
Size(shape) == Product(shape)

\* output.min() and output.max() raise ValueError on an array without elements
MinMaxRaises(shape) == Size(shape) = 0

\* line 89
IsDetectionLayout(shape) == Len(shape) = 3 /\ shape[3] = 85

\* lines 90-93
HintLines(shape) ==
    << Blank, L("FormatYolo"), Line("Detections", "", <<shape[2]>>),
       Line("ValuesPerDetection", "", <<shape[3]>>), L("Layout") >>

\* lines 84-85
SuccessLines(shape) ==
    << L("InferenceSuccessful"), Line("OutputShape", "", shape) >>

PrintSuccess ==
    /\ pc = "success"
    /\ out' = out \o SuccessLines(output.shape)
    /\ pc' = "range"
    /\ UNCHANGED <<error, argc, interpreter, input_details, output_details,
                   i, input_shape, input_dtype, test_input, output, calls,
                   exitStatus, raised>>

\* lines 86-93, still inside the try block
PrintRange ==
    /\ pc = "range"
    /\ IF MinMaxRaises(output.shape)
       THEN Except("ValueError: zero-size array")
       ELSE /\ out' = out \o << L("OutputRange") >>
                          \o (IF IsDetectionLayout(output.shape)
                              THEN HintLines(output.shape) ELSE <<>>)
            /\ pc' = "final"
            /\ UNCHANGED <<exitStatus, raised, error>>
    /\ UNCHANGED <<argc, interpreter, input_details, output_details, i,
                   input_shape, input_dtype, test_input, output, calls>>

\* line 98, then the return to __main__ and the end of the script
PrintFinal ==
    /\ pc = "final"
    /\ out' = out \o << Blank, Sep >>
    /\ pc' = "exited"
    /\ exitStatus' = 0
    /\ UNCHANGED <<error, argc, interpreter, input_details, output_details, i,
                   input_shape, input_dtype, test_input, output, calls,
                   raised>>

Init ==
    /\ pc = "main"
    /\ argc \in 1..MaxArgc
    /\ interpreter = "none"
    /\ input_details = <<>>
    /\ output_details = <<>>
    /\ i = 0
    /\ input_shape = <<>>
    /\ input_dtype = ""
    /\ test_input = NoArray
    /\ output = NoArray
    /\ calls = <<>>
    /\ out = <<>>
    /\ exitStatus = -1
    /\ raised = "None"
    /\ error = "None"

Next ==
    \/ Main
    \/ LoadModel
    \/ AllocateTensors
    \/ GetDetails
    \/ PrintInput
    \/ BeginOutputs
    \/ PrintOutput
    \/ PrintFormat
    \/ PrintShape
    \/ SynthInput
    \/ SetTensor
    \/ Invoke
    \/ GetTensor
    \/ PrintSuccess
    \/ PrintRange
    \/ PrintFinal

Spec == Init /\ [][Next]_vars

(* --------------------------- reading the report ----------------------- *)

Has(tag) == \E k \in DOMAIN out : out[k].tag = tag

Count(tag) == Cardinality({k \in DOMAIN out : out[k].tag = tag})

Printed(line) == \E k \in DOMAIN out : out[k] = line

Called(name) == \E k \in DOMAIN calls : calls[k] = name

\* the separator of line 98 closes the report
FinalSeparatorPrinted ==
    /\ Has("TestingHeader")
    /\ Len(out) >= 2
    /\ out[Len(out)] = Sep
    /\ out[Len(out) - 1] = Blank

\* the run is over: the script ended, exited or died of an exception
Terminated == pc = "exited"

\* the errors the three interpreter calls of the try block raise
InferenceCallErrors ==
    {"ValueError: Cannot set tensor", "ValueError: set_tensor",
     "RuntimeError: invoke", "ValueError: get_tensor"}

\* the dummy input exists: line 77 has run
Synthesized == test_input # NoArray

(* -------------------------------- claims ------------------------------- *)

\* C1: when set_tensor, invoke or get_tensor fails, the error is caught: the
\* report has a failure line carrying the error's description, nothing is
\* re-raised, and the run ends with the final separator and exit status 0.
C1_FailureRecovered ==
    error \in InferenceCallErrors =>
        /\ Printed(Line("InferenceFailed", error, <<>>))
        /\ raised = "None"
        /\ pc \in {"final", "exited"}
        /\ Terminated => FinalSeparatorPrinted /\ exitStatus = 0

C1_Witness ==
    /\ Terminated
    /\ error = "RuntimeError: invoke"
    /\ FinalSeparatorPrinted

\* the lines of the two floating-point recipes and of the raw-pixels text
FloatRecipeTags ==
    {"Float32Model", "NormalizeUnit", "DivideBy255", "OrImageNet",
     "MeanStdR", "MeanStdG", "MeanStdB"}

RawRecipeTags == {"Uint8Model", "RawPixels", "NoNormalization"}

\* C2: the recipe printed follows the type of the first input tensor alone:
\* float32 gives both floating-point recipes and no raw-pixels text, uint8
\* gives the raw-pixels text and no floating-point recipe, any other type
\* gives no recipe; in each case the run goes on to the shape decomposition.
C2_RecipeByFirstInput ==
    (Has("ExpectedHeader") /\ Len(input_details) >= 1) =>
        LET dt == input_details[1].dtype
        IN  /\ \A t \in FloatRecipeTags : Has(t) <=> dt = "float32"
            /\ \A t \in RawRecipeTags : Has(t) <=> dt = "uint8"
            /\ pc = "shape" \/ Has("ExpectedShape")

C2_Witness ==
    /\ pc = "shape"
    /\ Len(input_details) = 2
    /\ input_details[1].dtype = "uint8"
    /\ input_details[2].dtype = "float32"
    /\ Has("RawPixels")

\* C3 as written: with no argument the usage message printed has two lines,
\* the exit status is 1 and no inspection is attempted.
C3_Original ==
    (MissingArgument(argc) /\ pc # "main") =>
        /\ Len(out) = 2
        /\ Terminated /\ exitStatus = 1
        /\ calls = <<>> /\ interpreter = "none"

\* C3 amended: with no argument the usage message printed has four lines (the
\* usage line, a blank line, the "Example:" line and the example command),
\* the exit status is 1 and no inspection is attempted: nothing is loaded,
\* no interpreter call is made and no report line is printed.
C3_UsageAndExit ==
    (argc < 2 /\ pc # "main") =>
        /\ out = << L("Usage"), Blank, L("Example"), L("ExampleCommand") >>
        /\ Terminated /\ exitStatus = 1
        /\ calls = <<>> /\ interpreter = "none"
        /\ raised = "None"

C3_Witness ==
    /\ argc = 1
    /\ Terminated
    /\ Has("Usage")

\* the loop has gone through input k (Python index k - 1)
Processed(k) == Printed(Line("InputName", "", <<k - 1>>))

\* C4: every uint8 input tensor the loop has gone through has its scale and
\* zero-point printed, or, when its descriptor has no quantization
\* parameters, a placeholder, the report going on without an error.
C4_Original ==
    \A k \in DOMAIN input_details :
        (Processed(k) /\ input_details[k].dtype = "uint8") =>
            IF HasKey(input_details[k], "quantization_parameters")
            THEN /\ Printed(Line("Scale", "scales", <<k - 1>>))
                 /\ Printed(Line("ZeroPoint", "zero_points", <<k - 1>>))
            ELSE /\ Printed(Line("Quantization", "None", <<>>))
                 /\ raised = "None"

\* C5: when the run of a loaded model is over, the report has as many input
\* entries as input descriptors and as many output entries as output
\* descriptors.
C5_Original ==
    (Terminated /\ Called("get_output_details")) =>
        /\ Count("InputName") = Len(input_details)
        /\ Count("OutputName") = Len(output_details)

\* C6: once the try block is over, the detection-layout hint is in the
\* report exactly when get_tensor returned an array of rank 3 whose last
\* dimension is 85, and it then echoes the second and third dimensions.
C6_Original ==
    (Synthesized /\ pc \in {"final", "exited"}) =>
        /\ Has("FormatYolo") <=>
              /\ output # NoArray
              /\ Len(output.shape) = 3
              /\ output.shape[3] = 85
        /\ Has("FormatYolo") =>
              /\ Printed(Line("Detections", "", <<output.shape[2]>>))
              /\ Printed(Line("ValuesPerDetection", "", <<output.shape[3]>>))

\* C7: the dummy input is float32 data of the first input tensor's shape
\* whatever the declared type; with a uint8 first input the binding fails
\* and the run takes the recovered path: a failure line, no success line, no
\* uncaught error, and the final separator at the end.
C7_FloatDummyInput ==
    Synthesized =>
        /\ test_input.dtype = "float32"
        /\ test_input.shape = input_details[1].shape
        /\ input_details[1].dtype = "uint8" =>
              /\ pc \in {"set_tensor", "final", "exited"}
              /\ ~Has("InferenceSuccessful")
              /\ raised = "None"
              /\ pc # "set_tensor" => Count("InferenceFailed") = 1
              /\ Terminated => FinalSeparatorPrinted /\ exitStatus = 0

C7_Witness ==
    /\ Terminated
    /\ Synthesized
    /\ input_details[1].dtype = "uint8"
    /\ Has("InferenceFailed")

\* C8: when loading the model or allocating its tensors fails, the error
\* propagates: the run is over with an uncaught exception after one attempt,
\* nothing at all has been printed and no later interpreter call was made.
C8_LoadFailureFatal ==
    (pc # "main" /\ argc >= 2 /\ interpreter # "allocated"
        /\ pc \notin {"load", "allocate"}) =>
        /\ Terminated /\ raised # "None" /\ exitStatus = 1
        /\ out = <<>>
        /\ calls \in {<<"Interpreter">>, <<"Interpreter", "allocate_tensors">>}
        /\ error = "None"

C8_Witness ==
    /\ Terminated
    /\ interpreter = "loaded"
    /\ raised = "RuntimeError"

\* C9: a first input shape of fewer than 4 dimensions ends the run in the
\* shape decomposition with an uncaught IndexError: no failure line, no dummy
\* input, no inference call, no final separator; a shape [b, h, w, c] is
\* printed as Batch=b, Height=h, Width=w, Channels=c.
C9_ShapeDecomposition ==
    Has("ExpectedShape") =>
        LET shape == input_details[1].shape
        IN  /\ Len(shape) < 4 =>
                /\ Terminated /\ raised = "IndexError" /\ exitStatus = 1
                /\ error = "None" /\ ~Has("InferenceFailed")
                /\ ~Synthesized
                /\ ~Called("set_tensor") /\ ~Called("invoke")
                /\ ~Called("get_tensor")
                /\ ~Has("TestingHeader") /\ ~FinalSeparatorPrinted
            /\ Len(shape) = 4 =>
                /\ Printed(Line("Batch", "", <<shape[1]>>))
                /\ Printed(Line("Height", "", <<shape[2]>>))
                /\ Printed(Line("Width", "", <<shape[3]>>))
                /\ Printed(Line("Channels", "", <<shape[4]>>))
                /\ Count("Batch") = 1 /\ Count("Height") = 1
                /\ Count("Width") = 1 /\ Count("Channels") = 1
                /\ pc # "exited" \/ raised = "None"

C9_Witness ==
    /\ Has("ExpectedShape")
    /\ Len(input_details[1].shape) < 4
    /\ raised = "IndexError"
    /\ Has("Width") /\ ~Has("Channels")

\* C10: once the try block is over, exactly one of the success line and the
\* failure line is in the report.
C10_Original ==
    (Synthesized /\ pc \in {"final", "exited"}) =>
        Has("InferenceSuccessful") # Has("InferenceFailed")

====
